---- MODULE Spec2Model ----
(***************************************************************************)
(* Model of the Centrim DocGen VS Code extension (src/centrim-docgen/src/  *)
(* extension.ts): the endpoint probes, the documentation run driven by     *)
(* DocGenConfigPanel._generateDocs, the script process it spawns and the   *)
(* messages posted to the webview.                                         *)
(*                                                                         *)
(* The extension host is single-threaded: every action below is one        *)
(* uninterrupted piece of a handler, from one await (or event) to the      *)
(* next.  The outcomes of fetch, of WorkspaceConfiguration.update, of      *)
(* spawn and of the child process are chosen by the environment.           *)
(***************************************************************************)
EXTENDS Integers, Sequences, FiniteSets, TLC

\* ---------------------------------------------------------------- bounds
MaxRuns == 2      \* generateDocs requests handled in one behaviour
MaxChecks == 1    \* panel status checks handled in one behaviour
MaxChunks == 1    \* stdout/stderr chunks one script process emits
MaxHistory == 6   \* commits in the history of the repository
MaxDiffLen == 3   \* characters in the diff of a commit
MaxCommands == 2  \* checkStatus commands run in one behaviour
MaxPanels == 2    \* configuration panels created in one behaviour

\* ------------------------------------------------------------- constants
LOCALHOST == "http://localhost:11434"
LOOPBACK == "http://127.0.0.1:11434"
CUSTOM == "http://ollama.lan:11434"     \* some URL typed by the user
NoUrl == ""                             \* undefined or empty setting
Urls == {CUSTOM, LOCALHOST, LOOPBACK}
Answers == {"ok", "notok", "throw"}     \* response.ok, !response.ok, fetch rejects

ProbeSection == "centrimDocGen.ollamaUrl"     \* the key the probes read and write
DeclaredSection == "centrimDocgen.ollamaUrl"  \* the key package.json declares
ConfigKeys == {ProbeSection, DeclaredSection}
DiffLimitKey == "centrimDocgen.diffLimit"     \* read when the arguments are built
DefaultDiffLimit == 5000                      \* its default in package.json

Null == 0                               \* _currentPythonProcess = null
RunIds == 1..MaxRuns
CheckIds == 1..MaxChecks
CommandIds == 1..MaxCommands

\* close codes: 0, a non-zero exit status, null (ended by a signal), and
\* the negative errno Node reports when the spawn itself failed
ExitCodes == {"0", "1", "null"}
SpawnErrno == "-2"

\* ------------------------------------------------- the request
\* A number of a message or of a setting is <<n>>, and <<>> when it is
\* null or undefined; a model that is null, undefined or '' is "".
None == <<>>
Num(n) == <<n>>

\* JavaScript truthiness of an optional number: if (config.diffno)
Truthy(v) == v # None /\ v[1] # 0

\* The configs a generateDocs message is given here.  The handler takes the
\* message as it comes (config: any); the webview's form produces the ones
\* with a model of its four radio buttons and no negative number.
DiffnoValues == {None, Num(-3), Num(0), Num(3)}
ModelValues == {"", "phi3:medium", "mistral:7b", "llama3"}
DiffLimitValues == {None, Num(0), Num(1), Num(1000), Num(5000)}
Requests ==
    [diffno : DiffnoValues, model : ModelValues,
     diffLimit : DiffLimitValues, watch : BOOLEAN]

\* The values of the diffLimit setting: package.json declares the default
\* and a minimum of 1000, which settings.json is not held to.
DiffLimitSettings == {Num(500), Num(1000), Num(DefaultDiffLimit)}

\* The config of the form submitted as it is first rendered: both number
\* fields empty, the first radio button checked, watch unchecked.
FormDefaults ==
    [diffno |-> None, model |-> "phi3:medium", diffLimit |-> None, watch |-> FALSE]

\* No call in flight: the parameter does not exist.
NoRequest == [diffno |-> None, model |-> "", diffLimit |-> None, watch |-> FALSE]

\* path.join(extensionUri.fsPath, 'src', 'python_scripts', 'main.py')
ScriptPath == "src/python_scripts/main.py"

\* const allowedModels = [...]: the values of the form's four radio buttons
AllowedModels == {"phi3:medium", "mistral:7b", "deepseek-coder:6.7b", "qwen2.5-coder:7b"}

\* BuildArgs, were --watch pushed whatever the request says.
BuildArgsAlwaysWatch(cfg, setting) ==
    <<ScriptPath>>
    \o (IF Truthy(cfg.diffno) THEN <<"--diffno", ToString(cfg.diffno[1])>> ELSE <<>>)
    \o (IF cfg.model # "" THEN <<"--model", cfg.model>> ELSE <<>>)
    \o (IF Truthy(cfg.diffLimit)
        THEN <<"--diff-limit", ToString(cfg.diffLimit[1])>>
        ELSE IF setting # None THEN <<"--diff-limit", ToString(setting[1])>> ELSE <<>>)
    \o <<"--watch">>

\* const args = [script]; if (config.diffno) push; if (config.model) push;
\* if (config.diffLimit) push else the setting when !== undefined;
\* if (config.watch) push.  Numbers are pushed as n.toString().
BuildArgs(cfg, setting) ==
    <<ScriptPath>>
    \o (IF Truthy(cfg.diffno) THEN <<"--diffno", ToString(cfg.diffno[1])>> ELSE <<>>)
    \o (IF cfg.model # "" THEN <<"--model", cfg.model>> ELSE <<>>)
    \o (IF Truthy(cfg.diffLimit)
        THEN <<"--diff-limit", ToString(cfg.diffLimit[1])>>
        ELSE IF setting # None THEN <<"--diff-limit", ToString(setting[1])>> ELSE <<>>)
    \o (IF cfg.watch THEN <<"--watch">> ELSE <<>>)

VARIABLES
    config,                 \* persisted settings, by full key
    status,                 \* DocGenTreeDataProvider._status
    panelOpen,              \* DocGenConfigPanel.currentPanel is defined
    sidebar,                \* the checkOllamaStatusInSidebar call of the constructor
    checks,                 \* the _checkOllamaStatus calls
    runs,                   \* the _generateDocs calls
    proc,                   \* the script process of each run
    currentPythonProcess,   \* DocGenConfigPanel._currentPythonProcess
    posted,                 \* messages posted to the webview, by run
    shown,                  \* error messages shown, as <<run, kind>>
    webview,                \* the page of the panel and its script
    script,                 \* a run of the documentation script and its repository
    commands,               \* the calls of the centrim-docgen.checkStatus command
    disposed,               \* dispose() of the panel has run
    panels,                 \* the webview panels created, and currentPanel
    tree                    \* the items of the sidebar view as last rendered

vars == <<config, status, panelOpen, sidebar, checks, runs, proc,
          currentPythonProcess, posted, shown, webview, script, commands, disposed,
          panels, tree>>

\* ------------------------------------------------------------ the probe
\* [userUrl, localhost, 127.0.0.1].filter(u => typeof u === 'string' && !!u)
Candidates(userUrl) ==
    SelectSeq(<<userUrl, LOCALHOST, LOOPBACK>>, LAMBDA u : u # NoUrl)

\* A call that has not started, or has returned: its locals do not exist.
Returned(pc) ==
    [pc |-> pc, user |-> NoUrl, cands |-> <<>>, idx |-> 0, found |-> NoUrl,
     asked |-> <<>>, fails |-> 0, answer |-> "none"]

IdleProbe == Returned("none")

\* The state of a probe right after reading the setting: the first fetch is
\* in flight.  asked is the URLs fetched so far by this call, fails the
\* number of fetches that threw or answered non-OK, answer the answer of
\* the fetch whose URL was selected.
StartProbe(userUrl) ==
    [pc |-> "fetch", user |-> userUrl, cands |-> Candidates(userUrl), idx |-> 1,
     found |-> NoUrl, asked |-> <<Candidates(userUrl)[1]>>, fails |-> 0,
     answer |-> "none"]

\* Selects, were any response taken as success and only a rejected fetch
\* as failure.
SelectsUnlessThrown(res) == res # "throw"

\* if (response.ok) { foundUrl = url; break; }   and   catch (e) { }
Selects(res) == res = "ok"

\* ProbeStep, were the `break` missing: the loop goes on to the next
\* candidate after a successful one and keeps the last that answered OK.
ProbeStepNoBreak(pr, res) ==
    LET url == pr.cands[pr.idx]
        seen == [pr EXCEPT !.fails = IF res = "ok" THEN pr.fails ELSE pr.fails + 1,
                           !.found = IF res = "ok" THEN url ELSE pr.found,
                           !.answer = IF res = "ok" THEN res ELSE pr.answer]
    IN  IF pr.idx < Len(pr.cands)
        THEN [seen EXCEPT !.idx = pr.idx + 1,
                          !.asked = Append(pr.asked, pr.cands[pr.idx + 1])]
        ELSE [seen EXCEPT !.pc = IF seen.found # NoUrl THEN "found" ELSE "notfound"]

\* One iteration of `for (const url of candidates)`: the awaited fetch of
\* candidate idx settled with answer res; unless the loop ends, the fetch
\* of the next candidate is issued.
ProbeStep(pr, res) ==
    LET url == pr.cands[pr.idx]
        seen == [pr EXCEPT !.fails = IF res = "ok" THEN pr.fails ELSE pr.fails + 1]
    IN  IF Selects(res)
        THEN [seen EXCEPT !.found = url, !.answer = res, !.pc = "found"]
        ELSE IF pr.idx < Len(pr.cands)
             THEN [seen EXCEPT !.idx = pr.idx + 1,
                               !.asked = Append(pr.asked, pr.cands[pr.idx + 1])]
             ELSE [seen EXCEPT !.pc = "notfound"]

\* await getConfiguration('centrimDocGen').update('ollamaUrl', foundUrl, Workspace)
\* settled: written, or rejected with the settings unchanged.
ConfigAfterUpdate(url, written) ==
    IF written THEN [config EXCEPT ![ProbeSection] = url] ELSE config

\* A message to the webview: ok is success or isRunning, n the number of
\* the chunk that is the data of an outputUpdate or errorUpdate.
Msg(cmd, ok) == [cmd |-> cmd, ok |-> ok, n |-> 0]

Chunk(cmd, n) == [cmd |-> cmd, ok |-> TRUE, n |-> n]

\* panel.webview.postMessage: posted[r] is the messages of run r in emission
\* order and posted[0] the ollamaStatus messages; posted[Queue] is the
\* messages the webview has not handled yet, in emission order, each with
\* the run it belongs to.
Queue == -1

Post(r, msgs) ==
    posted' = [posted EXCEPT
                  ![r] = @ \o msgs,
                  ![Queue] = @ \o [i \in 1..Len(msgs) |-> [run |-> r, msg |-> msgs[i]]]]

\* st: the state of the child; sig: SIGTERM was sent to it; code: the code
\* its 'close' event carried; chunks: the data events it has emitted; args:
\* the arguments it was spawned with
NoProc == [st |-> "none", sig |-> FALSE, code |-> "none", chunks |-> 0, args |-> <<>>]

\* ------------------------------------------------- the script (main.py)
\* The script spawned by _generateDocs: commit selection, diff bounding,
\* summary and log entry, for each selected commit in turn.
DefaultCount == 5                       \* commits documented when there is no log yet
CountValues == {None, Num(1), Num(3)}   \* --diffno, or its absence
Limits == 0..MaxDiffLen                 \* --diff-limit
Alphabet == {"a", "b"}
Texts == UNION {[1..n -> Alphabet] : n \in 0..MaxDiffLen}
Marker == <<"~">>                       \* the truncation marker

\* The history of n commits, most recent first: commit 1 is the latest.
History(n) == [i \in 1..n |-> i]

\* The log entry of a commit; OldEntry is an entry of an earlier run.
Entry(commit) == [commit |-> commit]
OldEntry == Entry(0)

Min(a, b) == IF a <= b THEN a ELSE b

\* Select, were the default count used whether or not the log exists.
SelectAlwaysDefault(count, logExists, history) ==
    LET k == IF count # None THEN count[1] ELSE DefaultCount
    IN  SubSeq(history, 1, Min(k, Len(history)))

\* Commit Selector: the count given, or 1 when the log exists and the
\* default otherwise; that many of the most recent commits, fewer when the
\* history is shorter.
Select(count, logExists, history) ==
    LET k == IF count # None THEN count[1]
             ELSE IF logExists THEN 1 ELSE DefaultCount
    IN  SubSeq(history, 1, Min(k, Len(history)))

\* Bounding, were the marker appended to every text.
BoundingAlwaysMarked(text, limit) ==
    [text |-> SubSeq(text, 1, Min(limit, Len(text))) \o Marker, truncated |-> TRUE]

\* Diff Bounding: the text unchanged when within the limit, otherwise its
\* first limit characters with the marker appended.
Bounding(text, limit) ==
    IF Len(text) <= limit
    THEN [text |-> text, truncated |-> FALSE]
    ELSE [text |-> SubSeq(text, 1, limit) \o Marker, truncated |-> TRUE]

\* No script is looked at.
NoScript ==
    [pc |-> "none", count |-> None, limit |-> 0, history |-> <<>>, log0 |-> <<>>,
     existed |-> FALSE, exists |-> FALSE, log |-> <<>>, selected |-> <<>>, pos |-> 0,
     diff |-> <<>>, bounded |-> <<>>, truncated |-> FALSE,
     stopped |-> "none", exit |-> "none"]

\* The script as spawned with a commit count and a diff limit, in a
\* repository of n commits whose log file holds log0 (when it exists).
\* existed is whether the log file was there when the script started.
\* pos is the selected commit being processed, diff and bounded its diff
\* before and after Diff Bounding, stopped the step SIGTERM interrupted.
StartScript(count, limit, n, log0, exists) ==
    [NoScript EXCEPT !.pc = "start", !.count = count, !.limit = limit,
                     !.history = History(n), !.log0 = log0, !.log = log0,
                     !.existed = exists, !.exists = exists]

\* The page before the panel and its HTML exist.  loaded: the script has
\* run; disabled: generateBtn.disabled; stopShown: stopBtn is displayed;
\* listeners: the click listeners registered on stopBtn; out: the content
\* of outputArea; sent: the messages posted to the extension and not yet
\* handled by it.
NoPage ==
    [loaded |-> FALSE, disabled |-> FALSE, stopShown |-> FALSE, listeners |-> 0,
     out |-> <<>>, sent |-> <<>>]

\* made: the panels created so far, numbered 1..made; live: those not
\* disposed; current: DocGenConfigPanel.currentPanel, 0 when undefined.
NoPanels == [made |-> 0, live |-> {}, current |-> 0]

\* ------------------------------------------------------ the sidebar view
\* new DocGenTreeItem(label, TreeItemCollapsibleState.None, command, icon):
\* command is the id of the item's command, "" when it has none.
Item(label, command) == [label |-> label, command |-> command, collapsible |-> "None"]

OpenConfigCommand == "centrim-docgen.openConfigPanel"

\* The item pushed by the switch over this._status
StatusItem(st) ==
    CASE st = "checking_ollama" -> Item("Checking Ollama Status...", "")
      [] st = "ollama_ready" -> Item("Generate Documentation", OpenConfigCommand)
      [] st = "ollama_not_ready" -> Item("Ollama Not Running", "centrim-docgen.openSettings")
      [] st = "generating" -> Item("Generating Documentation...", "")
      [] st = "generation_complete" -> Item("Documentation Generated", OpenConfigCommand)
      [] OTHER -> Item("Generate Documentation", OpenConfigCommand)

\* The item pushed after the switch
RefreshItem == Item("Refresh Ollama Status", "centrim-docgen.checkStatus")

\* GetChildren, were the item of the status left out while a check or a
\* generation is under way.
GetChildrenHiding(st, element) ==
    IF element # <<>> THEN <<>>
    ELSE IF st \in {"checking_ollama", "generating"} THEN <<RefreshItem>>
    ELSE <<StatusItem(st), RefreshItem>>

\* getChildren(element?): element is <<>> for the root (undefined) and
\* <<item>> for an item.
GetChildren(st, element) ==
    IF element # <<>> THEN <<>> ELSE <<StatusItem(st), RefreshItem>>

\* The view before it was rendered.
NoTree == [status |-> "none", items |-> <<>>]

\* A checkStatus command that has not run.  url is the URL it requests,
\* answer how the request settled.
NoCommand == [pc |-> "none", url |-> NoUrl, answer |-> "none"]

\* ------------------------------------------------------------------ Init
\* activate(): the tree data provider is constructed, which sets
\* checking_ollama and starts the sidebar probe; no panel exists yet.
\* declared is the values of the ollamaUrl setting package.json declares,
\* limits those of the diffLimit setting.
InitSettings(declared, limits) ==
    /\ \E urls \in [ConfigKeys -> Urls \cup {NoUrl}], limit \in limits :
          /\ urls[DeclaredSection] \in declared
          /\ config = urls @@ (DiffLimitKey :> limit)
    /\ status = "checking_ollama"
    /\ panelOpen = FALSE
    /\ sidebar = StartProbe(config[ProbeSection])
    /\ checks = [k \in CheckIds |-> IdleProbe]
    /\ runs = [r \in RunIds |-> [probe |-> IdleProbe, end |-> "none", cfg |-> NoRequest]]
    /\ proc = [r \in RunIds |-> NoProc]
    /\ currentPythonProcess = Null
    /\ posted = [r \in {Queue, 0} \cup RunIds |-> <<>>]
    /\ shown = {}
    /\ webview = NoPage
    /\ commands = [k \in CommandIds |-> NoCommand]
    /\ disposed = FALSE
    /\ panels = NoPanels
    /\ tree = NoTree

\* The declared ollamaUrl setting is read by nothing but the checkStatus
\* command; it is at its default wherever the command is not looked at.
InitHost(limits) == InitSettings({LOCALHOST}, limits)

InitWith(limits) == InitHost(limits) /\ script = NoScript

\* The diffLimit setting is read by nothing but the building of a run's
\* arguments; it is at its default wherever the arguments are not looked at.
Init == InitWith({Num(DefaultDiffLimit)})

\* The state after construction with no ollamaUrl set: each probe tries the
\* two defaults.
InitView == Init /\ config[ProbeSection] = NoUrl

\* The state after construction under any diffLimit setting.
InitArgs == InitWith(DiffLimitSettings)

\* ---------------------------------------------------- sidebar probe
\* SidebarFetchSettled, were the setting cleared when no candidate answers.
SidebarFetchSettledClearing ==
    /\ sidebar.pc = "fetch"
    /\ \E res \in Answers :
          LET pr == ProbeStep(sidebar, res)
          IN  CASE pr.pc = "found" ->
                      /\ status' = "ollama_ready"
                      /\ sidebar' = [pr EXCEPT !.pc = "update"]
                      /\ UNCHANGED config
                [] pr.pc = "notfound" ->
                      /\ status' = "ollama_not_ready"
                      /\ sidebar' = Returned("done")
                      /\ config' = [config EXCEPT ![ProbeSection] = NoUrl]
                [] OTHER ->
                      /\ sidebar' = pr
                      /\ UNCHANGED <<status, config>>
    /\ UNCHANGED <<panelOpen, commands, disposed, panels, tree, webview, script, checks, runs, proc,
                   currentPythonProcess, posted, shown>>

\* The awaited fetch of checkOllamaStatusInSidebar settled.
SidebarFetchSettled ==
    /\ sidebar.pc = "fetch"
    /\ \E res \in Answers :
          LET pr == ProbeStep(sidebar, res)
          IN  CASE pr.pc = "found" ->
                      /\ status' = "ollama_ready"
                      /\ sidebar' = [pr EXCEPT !.pc = "update"]
                [] pr.pc = "notfound" ->
                      /\ status' = "ollama_not_ready"
                      /\ sidebar' = Returned("done")
                [] OTHER ->
                      /\ sidebar' = pr
                      /\ UNCHANGED status
    /\ UNCHANGED <<config, panelOpen, commands, disposed, panels, tree, webview, script, checks, runs, proc,
                   currentPythonProcess, posted, shown>>

SidebarUpdateSettled ==
    /\ sidebar.pc = "update"
    /\ \E written \in BOOLEAN :
          /\ config' = ConfigAfterUpdate(sidebar.found, written)
          /\ sidebar' = Returned(IF written THEN "done" ELSE "rejected")
    /\ UNCHANGED <<status, panelOpen, commands, disposed, panels, tree, webview, script, checks, runs, proc,
                   currentPythonProcess, posted, shown>>

\* ------------------------------------------------------ the panel
\* _checkOllamaStatus is called: it reads the setting and awaits the first
\* fetch.
StartCheck ==
    \E k \in CheckIds :
       /\ checks[k].pc = "none"
       /\ \A j \in CheckIds : j < k => checks[j].pc # "none"
       /\ checks' = [checks EXCEPT ![k] = StartProbe(config[ProbeSection])]

\* createWebviewPanel and currentPanel = new DocGenConfigPanel(...)
Created == [made |-> panels.made + 1,
            live |-> panels.live \cup {panels.made + 1},
            current |-> panels.made + 1]

\* createOrShow with no panel: the first panel is created.  The variables
\* of the panel (its handle, its calls, its page) are those of one panel
\* object: OpenConfigPanel creates the first, ReopenConfigPanel the next
\* ones.
OpenConfigPanel ==
    /\ ~panelOpen
    /\ ~disposed
    /\ panels.made < MaxPanels
    /\ panelOpen' = TRUE
    /\ panels' = Created
    /\ UNCHANGED <<config, status, sidebar, script, webview, checks, runs, proc,
                   currentPythonProcess, posted, shown, commands, disposed, tree>>

\* createOrShow with no panel, after the disposal of an earlier one whose
\* calls have all returned and whose processes have all closed: the new
\* panel is a new object, with a new page and a null handle.
ReopenConfigPanel ==
    /\ ~panelOpen
    /\ disposed
    /\ panels.made < MaxPanels
    /\ \A r \in RunIds : /\ runs[r].probe.pc \notin {"fetch", "update"}
                         /\ proc[r].st \in {"none", "closed"}
    /\ \A k \in CheckIds : checks[k].pc \notin {"fetch", "update"}
    /\ panelOpen' = TRUE
    /\ disposed' = FALSE
    /\ panels' = Created
    /\ posted' = [posted EXCEPT ![Queue] = <<>>]
    /\ UNCHANGED <<config, status, sidebar, script, webview, checks, runs, proc,
                   currentPythonProcess, shown, commands, tree>>

\* createOrShow with a panel: it is revealed and the status re-checked.
RevealConfigPanel ==
    /\ panelOpen
    /\ StartCheck
    /\ UNCHANGED <<config, status, panelOpen, commands, disposed, panels, tree, sidebar, script, webview, runs, proc,
                   currentPythonProcess, posted, shown>>

\* onDidReceiveMessage, case 'checkOllamaStatus'
CheckOllamaStatus ==
    /\ panelOpen
    /\ StartCheck
    /\ UNCHANGED <<config, status, panelOpen, commands, disposed, panels, tree, sidebar, script, runs, proc,
                   currentPythonProcess, posted, shown>>

\* A checkOllamaStatus message arrives.
RecvCheckOllamaStatus == CheckOllamaStatus /\ UNCHANGED webview

CheckFetchSettled(k) ==
    /\ checks[k].pc = "fetch"
    /\ \E res \in Answers :
          LET pr == ProbeStep(checks[k], res)
          IN  CASE pr.pc = "found" ->
                      /\ Post(0, <<Msg("ollamaStatus", TRUE)>>)
                      /\ status' = "ollama_ready"
                      /\ checks' = [checks EXCEPT ![k] = [pr EXCEPT !.pc = "update"]]
                [] pr.pc = "notfound" ->
                      /\ Post(0, <<Msg("ollamaStatus", FALSE)>>)
                      /\ status' = "ollama_not_ready"
                      /\ checks' = [checks EXCEPT ![k] = Returned("done")]
                [] OTHER ->
                      /\ checks' = [checks EXCEPT ![k] = pr]
                      /\ UNCHANGED <<status, posted>>
    /\ UNCHANGED <<config, panelOpen, commands, disposed, panels, tree, sidebar, script, webview, runs, proc,
                   currentPythonProcess, shown>>

CheckUpdateSettled(k) ==
    /\ checks[k].pc = "update"
    /\ \E written \in BOOLEAN :
          /\ config' = ConfigAfterUpdate(checks[k].found, written)
          /\ checks' = [checks EXCEPT
                           ![k] = Returned(IF written THEN "done" ELSE "rejected")]
    /\ UNCHANGED <<status, panelOpen, commands, disposed, panels, tree, sidebar, script, webview, runs, proc,
                   currentPythonProcess, posted, shown>>

\* ---------------------------------------------------- _generateDocs
\* onDidReceiveMessage, case 'generateDocs': the call reads the setting and
\* awaits the first fetch.  Nothing in the handler looks at a run in flight.
GenerateDocs(cfg) ==
    /\ panelOpen
    /\ \E r \in RunIds :
          /\ runs[r].probe.pc = "none"
          /\ \A j \in RunIds : j < r => runs[j].probe.pc # "none"
          /\ runs' = [runs EXCEPT ![r].probe = StartProbe(config[ProbeSection]),
                                  ![r].cfg = cfg]
    /\ UNCHANGED <<config, status, panelOpen, commands, disposed, panels, tree, sidebar, script, checks, proc,
                   currentPythonProcess, posted, shown>>

\* A generateDocs message of the form as first rendered.
RecvGenerateDocs == GenerateDocs(FormDefaults) /\ UNCHANGED webview

\* The first generateDocs message of the panel, with any config.
RecvFirstGenerateDocs ==
    /\ \A r \in RunIds : runs[r].probe.pc = "none"
    /\ \E cfg \in Requests : GenerateDocs(cfg)
    /\ UNCHANGED webview

Ended(how) == [probe |-> Returned("done"), end |-> how, cfg |-> NoRequest]

\* GenNoServer, were the status reverted to idle as in the workspace branch.
GenNoServerIdle(r) ==
    /\ shown' = shown \cup {<<r, "noserver">>}
    /\ Post(r, <<Msg("generationComplete", FALSE)>>)
    /\ status' = "idle"
    /\ runs' = [runs EXCEPT ![r] = Ended("noserver")]
    /\ UNCHANGED <<proc, currentPythonProcess>>

\* if (!foundUrl) { showErrorMessage; postMessage(generationComplete,
\* success: false); updateStatus('ollama_not_ready'); return; }
GenNoServer(r) ==
    /\ shown' = shown \cup {<<r, "noserver">>}
    /\ Post(r, <<Msg("generationComplete", FALSE)>>)
    /\ status' = "ollama_not_ready"
    /\ runs' = [runs EXCEPT ![r] = Ended("noserver")]
    /\ UNCHANGED <<proc, currentPythonProcess>>

GenFetchSettled(r) ==
    /\ runs[r].probe.pc = "fetch"
    /\ \E res \in Answers :
          LET pr == ProbeStep(runs[r].probe, res)
          IN  CASE pr.pc = "found" ->
                      /\ runs' = [runs EXCEPT ![r].probe = [pr EXCEPT !.pc = "update"]]
                      /\ UNCHANGED <<status, posted, shown, proc, currentPythonProcess>>
                [] pr.pc = "notfound" -> GenNoServer(r)
                [] OTHER ->
                      /\ runs' = [runs EXCEPT ![r].probe = pr]
                      /\ UNCHANGED <<status, posted, shown, proc, currentPythonProcess>>
    /\ UNCHANGED <<config, panelOpen, commands, disposed, panels, tree, sidebar, script, webview, checks>>

\* BeforeSpawn, were generationStarted not posted.
BeforeSpawnSilent(r) == <<>>

\* The messages posted between the workspace check and the spawn.
BeforeSpawn(r) == <<Msg("generationStarted", TRUE)>>

\* if (!workspaceFolders || workspaceFolders.length === 0) { ... return; }
GenNoWorkspace(r) ==
    /\ shown' = shown \cup {<<r, "noworkspace">>}
    /\ Post(r, <<Msg("generationComplete", FALSE)>>)
    /\ status' = "idle"
    /\ runs' = [runs EXCEPT ![r] = Ended("noworkspace")]
    /\ UNCHANGED <<proc, currentPythonProcess>>

\* try { spawn(...); this._currentPythonProcess = pythonProcess; ...handlers }
\* how = "running": the child runs; how = "failing": spawn returned a child
\* that will emit 'error' (the executable cannot be started).
GenSpawned(r, how) ==
    /\ Post(r, BeforeSpawn(r))
    /\ status' = "generating"
    /\ proc' = [proc EXCEPT ![r].st = how,
                            ![r].args = BuildArgs(runs[r].cfg, config'[DiffLimitKey])]
    /\ currentPythonProcess' = r
    /\ runs' = [runs EXCEPT ![r] = Ended("spawned")]
    /\ UNCHANGED shown

\* catch (error) { this._currentPythonProcess = null; showErrorMessage;
\* postMessage(generationComplete, success: false); updateStatus(...) }
GenSpawnThrew(r) ==
    /\ Post(r, BeforeSpawn(r) \o <<Msg("generationComplete", FALSE)>>)
    /\ shown' = shown \cup {<<r, "unexpected">>}
    /\ status' = "ollama_not_ready"
    /\ currentPythonProcess' = Null
    /\ runs' = [runs EXCEPT ![r] = Ended("threw")]
    /\ UNCHANGED proc

\* The awaited update rejected: the exception leaves the async function,
\* nothing after line 276 runs.
GenUpdateRejected(r) ==
    /\ runs' = [runs EXCEPT ![r] = [probe |-> Returned("rejected"), end |-> "rejected",
                                    cfg |-> NoRequest]]
    /\ UNCHANGED <<status, posted, shown, proc, currentPythonProcess>>

\* The continuation of _generateDocs after `await ...update(...)`, to the
\* end of the function.
GenUpdateSettled(r) ==
    /\ runs[r].probe.pc = "update"
    /\ \E written \in BOOLEAN :
          /\ config' = ConfigAfterUpdate(runs[r].probe.found, written)
          /\ IF ~written
             THEN GenUpdateRejected(r)
             ELSE \E folder \in BOOLEAN :
                     IF ~folder
                     THEN GenNoWorkspace(r)
                     ELSE \/ \E how \in {"running", "failing"} : GenSpawned(r, how)
                          \/ GenSpawnThrew(r)
    /\ UNCHANGED <<panelOpen, commands, disposed, panels, tree, sidebar, script, webview, checks>>

\* -------------------------------------------------- the script process
\* pythonProcess.stdout.on('data', ...)
ProcStdout(r) ==
    /\ proc[r].st = "running"
    /\ proc[r].chunks < MaxChunks
    /\ proc' = [proc EXCEPT ![r].chunks = @ + 1]
    /\ Post(r, <<Chunk("outputUpdate", proc[r].chunks + 1)>>)
    /\ UNCHANGED <<config, status, panelOpen, commands, disposed, panels, tree, sidebar, script, webview, checks, runs,
                   currentPythonProcess, shown>>

\* pythonProcess.stderr.on('data', ...)
ProcStderr(r) ==
    /\ proc[r].st = "running"
    /\ proc[r].chunks < MaxChunks
    /\ proc' = [proc EXCEPT ![r].chunks = @ + 1]
    /\ Post(r, <<Chunk("errorUpdate", proc[r].chunks + 1)>>)
    /\ shown' = shown \cup {<<r, "stderr">>}
    /\ UNCHANGED <<config, status, panelOpen, commands, disposed, panels, tree, sidebar, script, webview, checks, runs,
                   currentPythonProcess>>

\* CloseSucceeded, were only a positive exit status taken as failure.
CloseNotFailed(code) == code # "1"

\* if (code === 0)
CloseSucceeded(code) == code = "0"

\* pythonProcess.on('close', (code) => ...): the process has ended and its
\* streams are closed.  After a failed spawn Node reports the errno as code.
ProcClose(r) ==
    /\ proc[r].st \in {"running", "errored"}
    /\ \E code \in (IF proc[r].st = "running" THEN ExitCodes ELSE {SpawnErrno}) :
          /\ proc' = [proc EXCEPT ![r].st = "closed", ![r].code = code]
          /\ currentPythonProcess' = Null
          /\ IF CloseSucceeded(code)
             THEN /\ Post(r, <<Msg("generationComplete", TRUE)>>)
                  /\ status' = "generation_complete"
                  /\ UNCHANGED shown
             ELSE /\ shown' = shown \cup {<<r, "exit">>}
                  /\ Post(r, <<Msg("generationComplete", FALSE)>>)
                  /\ status' = "ollama_ready"
    /\ UNCHANGED <<config, panelOpen, commands, disposed, panels, tree, sidebar, script, webview, checks, runs>>

\* ProcError, were the status set as after a failed run of the script.
ProcErrorReady(r) ==
    /\ proc[r].st = "failing"
    /\ proc' = [proc EXCEPT ![r].st = "errored"]
    /\ currentPythonProcess' = Null
    /\ shown' = shown \cup {<<r, "spawnerr">>}
    /\ Post(r, <<Msg("generationComplete", FALSE)>>)
    /\ status' = "ollama_ready"
    /\ UNCHANGED <<config, panelOpen, commands, disposed, panels, tree, sidebar, script, webview, checks, runs>>

\* pythonProcess.on('error', (err) => ...)
ProcError(r) ==
    /\ proc[r].st = "failing"
    /\ proc' = [proc EXCEPT ![r].st = "errored"]
    /\ currentPythonProcess' = Null
    /\ shown' = shown \cup {<<r, "spawnerr">>}
    /\ Post(r, <<Msg("generationComplete", FALSE)>>)
    /\ status' = "ollama_not_ready"
    /\ UNCHANGED <<config, panelOpen, commands, disposed, panels, tree, sidebar, script, webview, checks, runs>>

\* KillCurrent, were every running child signalled, not only the one the
\* handle designates.
KillAll ==
    /\ IF currentPythonProcess # Null
       THEN /\ proc' = [r \in RunIds |->
                          [proc[r] EXCEPT !.sig = @ \/ proc[r].st = "running"]]
            /\ currentPythonProcess' = Null
       ELSE UNCHANGED <<proc, currentPythonProcess>>
    /\ UNCHANGED <<config, status, panelOpen, commands, disposed, panels, tree, sidebar, script, checks, runs, posted, shown>>

\* stopGeneration(): kill('SIGTERM') reaches a child that is running.
KillCurrent ==
    /\ IF currentPythonProcess # Null
       THEN /\ proc' = [proc EXCEPT ![currentPythonProcess].sig =
                            @ \/ proc[currentPythonProcess].st = "running"]
            /\ currentPythonProcess' = Null
       ELSE UNCHANGED <<proc, currentPythonProcess>>
    /\ UNCHANGED <<config, status, panelOpen, commands, disposed, panels, tree, sidebar, script, checks, runs, posted, shown>>

\* onDidReceiveMessage, case 'stopGeneration'
StopGeneration ==
    /\ panelOpen
    /\ KillCurrent
    /\ UNCHANGED webview

\* ------------------------------------------------------------ the webview
\* vscode.postMessage from the page's script
ToHost(cmd, cfg) == [cmd |-> cmd, config |-> cfg]

Queued(cmd) == Len(SelectSeq(webview.sent, LAMBDA m : m.cmd = cmd))

\* checkOllamaStatus() of the script: run by the load event, and afterwards
\* by each click on Refresh Status.
ViewCheckOllamaStatus ==
    /\ panelOpen
    /\ Cardinality({k \in CheckIds : checks[k].pc # "none"})
          + Queued("checkOllamaStatus") < MaxChecks
    /\ webview' = [webview EXCEPT
                      !.loaded = TRUE,
                      !.sent = Append(@, ToHost("checkOllamaStatus", NoRequest))]
    /\ UNCHANGED <<config, status, panelOpen, commands, disposed, panels, tree, sidebar, script, checks, runs, proc,
                   currentPythonProcess, posted, shown>>

\* The submit listener of configForm.  The browser does not fire submit
\* while the form's submit button is disabled.
ViewSubmit ==
    /\ webview.loaded
    /\ ~webview.disabled
    /\ Cardinality({r \in RunIds : runs[r].probe.pc # "none"})
          + Queued("generateDocs") < MaxRuns
    /\ webview' = [webview EXCEPT
                      !.stopShown = TRUE,
                      !.disabled = TRUE,
                      !.out = <<>>,
                      !.sent = Append(@, ToHost("generateDocs", FormDefaults))]
    /\ UNCHANGED <<config, status, panelOpen, commands, disposed, panels, tree, sidebar, script, checks, runs, proc,
                   currentPythonProcess, posted, shown>>

\* A click on stopBtn while it is displayed: each listener registered so
\* far posts stopGeneration and hides the button.
ViewStopClick ==
    /\ webview.loaded
    /\ webview.stopShown
    /\ webview.listeners > 0
    /\ webview' = [webview EXCEPT
                      !.stopShown = FALSE,
                      !.sent = @ \o [i \in 1..webview.listeners |->
                                       ToHost("stopGeneration", NoRequest)]]
    /\ UNCHANGED <<config, status, panelOpen, commands, disposed, panels, tree, sidebar, script, checks, runs, proc,
                   currentPythonProcess, posted, shown>>

\* What outputArea gains from a message: the data of an outputUpdate, the
\* error marker and the data of an errorUpdate, the closing line of a
\* generationComplete.  The second `case 'generationStarted'` of the
\* switch is never reached, so generationStarted adds nothing.
Rendered(e) ==
    CASE e.msg.cmd = "outputUpdate" -> <<[kind |-> "out", run |-> e.run, n |-> e.msg.n]>>
      [] e.msg.cmd = "errorUpdate" -> <<[kind |-> "err", run |-> e.run, n |-> e.msg.n]>>
      [] e.msg.cmd = "generationComplete" ->
            <<[kind |-> IF e.msg.ok THEN "success" ELSE "failed", run |-> 0, n |-> 0]>>
      [] OTHER -> <<>>

\* window.addEventListener('message', ...): the oldest message posted by
\* the extension is handled.
ViewReceive ==
    /\ webview.loaded
    /\ posted[Queue] # <<>>
    /\ LET e == Head(posted[Queue])
           cmd == e.msg.cmd
       IN  /\ posted' = [posted EXCEPT ![Queue] = Tail(@)]
           /\ webview' =
                 [webview EXCEPT
                     !.out = @ \o Rendered(e),
                     !.stopShown = CASE cmd = "generationStarted" -> TRUE
                                     [] cmd = "generationComplete" -> FALSE
                                     [] OTHER -> @,
                     !.disabled = CASE cmd = "ollamaStatus" -> ~e.msg.ok
                                    [] cmd = "generationComplete" -> FALSE
                                    [] OTHER -> @,
                     !.listeners = IF cmd = "generationComplete" THEN @ + 1 ELSE @]
    /\ UNCHANGED <<config, status, panelOpen, commands, disposed, panels, tree, sidebar, script, checks, runs, proc,
                   currentPythonProcess, shown>>

\* The extension handles the oldest message of the page.
Handles(cmd) ==
    /\ webview.sent # <<>>
    /\ Head(webview.sent).cmd = cmd
    /\ webview' = [webview EXCEPT !.sent = Tail(@)]

HostCheckOllamaStatus == Handles("checkOllamaStatus") /\ CheckOllamaStatus

HostGenerateDocs == Handles("generateDocs") /\ GenerateDocs(Head(webview.sent).config)

HostStopGeneration == Handles("stopGeneration") /\ panelOpen /\ KillCurrent

\* ------------------------------------------------ the checkStatus command
\* getConfiguration('centrimDocgen').get('ollamaUrl') || 'http://localhost:11434'
CommandUrl == IF config[DeclaredSection] # NoUrl THEN config[DeclaredSection] ELSE LOCALHOST

\* centrim-docgen.checkStatus is run: the status is set to checking_ollama
\* and the one fetch of the command is awaited.
CheckStatusCommand ==
    /\ \E k \in CommandIds :
          /\ commands[k].pc = "none"
          /\ \A j \in CommandIds : j < k => commands[j].pc # "none"
          /\ commands' = [commands EXCEPT ![k] = [NoCommand EXCEPT !.pc = "fetch",
                                                                  !.url = CommandUrl]]
    /\ status' = "checking_ollama"
    /\ UNCHANGED <<config, panelOpen, disposed, panels, tree, sidebar, script, webview, checks, runs,
                   proc, currentPythonProcess, posted, shown>>

\* CommandStatus, were the catch clause missing: a rejected fetch leaves the
\* status as the command set it.
CommandStatusUncaught(res) ==
    CASE res = "ok" -> "ollama_ready"
      [] res = "notok" -> "ollama_not_ready"
      [] OTHER -> "checking_ollama"

\* if (response.ok) updateStatus('ollama_ready') else
\* updateStatus('ollama_not_ready'), and the same in the catch clause
CommandStatus(res) == IF res = "ok" THEN "ollama_ready" ELSE "ollama_not_ready"

\* The fetch of the command settled: the status is set and a notification
\* shown.
CheckStatusSettled(k) ==
    /\ commands[k].pc = "fetch"
    /\ \E res \in Answers :
          /\ status' = CommandStatus(res)
          /\ shown' = shown \cup {<<0, res>>}
          /\ commands' = [commands EXCEPT ![k] = [NoCommand EXCEPT !.pc = "done",
                                                                  !.answer = res]]
    /\ UNCHANGED <<config, panelOpen, disposed, panels, tree, sidebar, script, webview, checks, runs,
                   proc, currentPythonProcess, posted>>

\* ------------------------------------------------------------- dispose
\* dispose(), run when the user closes the panel and by deactivate():
\* currentPanel is cleared, the panel and its page are destroyed and the
\* message listener is removed.  The process handle is not looked at.
\* DisposePanel, were currentPanel left as it is.
DisposePanelKeepingCurrent ==
    /\ \E p \in panels.live : panels' = [panels EXCEPT !.live = @ \ {p}]
    /\ disposed' = TRUE
    /\ webview' = NoPage
    /\ UNCHANGED <<config, status, panelOpen, commands, sidebar, script, checks, runs,
                   proc, currentPythonProcess, posted, shown, tree>>

DisposePanel ==
    /\ \E p \in panels.live :
          panels' = [panels EXCEPT !.live = @ \ {p}, !.current = 0]
    /\ panelOpen' = FALSE
    /\ disposed' = TRUE
    /\ webview' = NoPage
    /\ UNCHANGED <<config, status, commands, sidebar, script, checks, runs, proc,
                   currentPythonProcess, posted, shown, tree>>

\* ------------------------------------------------------ the sidebar view
\* VS Code renders the view after onDidChangeTreeData fired: getChildren()
\* is called for the root, under the status of that moment.
RefreshTree ==
    /\ tree' = [status |-> status, items |-> GetChildren(status, <<>>)]
    /\ UNCHANGED <<config, status, panelOpen, commands, disposed, panels, sidebar, script,
                   webview, checks, runs, proc, currentPythonProcess, posted, shown>>

\* ------------------------------------------------- the steps of the script
ScriptFrame ==
    UNCHANGED <<config, status, panelOpen, commands, disposed, panels, tree, sidebar,
                checks, runs, proc, currentPythonProcess, posted, shown, webview>>

\* The script ends with an error: a non-zero exit status, the log as it is.
Fails == [script EXCEPT !.pc = "failed", !.exit = "1"]

\* Start of a run: no repository or no commit is a RepositoryError, no
\* reachable endpoint an EndpointUnavailableError, both before any commit
\* is processed; otherwise the commits are selected.
ScriptSelect ==
    /\ script.pc = "start"
    /\ \E reachable \in BOOLEAN :
          script' = IF script.history = <<>> \/ ~reachable
                    THEN Fails
                    ELSE [script EXCEPT
                             !.pc = "extract",
                             !.selected = Select(script.count, script.exists,
                                                 script.history),
                             !.pos = 1]
    /\ ScriptFrame

\* Diff Extractor: the diff of the commit, or a failure of the tool.
ScriptExtract ==
    /\ script.pc = "extract"
    /\ \/ script' = Fails
       \/ \E text \in Texts : script' = [script EXCEPT !.pc = "bound", !.diff = text]
    /\ ScriptFrame

\* Diff Bounding, and the request to the summarizer is sent.
ScriptBound ==
    /\ script.pc = "bound"
    /\ script' = [script EXCEPT
                     !.pc = "summarise",
                     !.bounded = Bounding(script.diff, script.limit).text,
                     !.truncated = Bounding(script.diff, script.limit).truncated]
    /\ ScriptFrame

\* Summarizer Client: the completion has arrived.
ScriptSummarised ==
    /\ script.pc = "summarise"
    /\ script' = [script EXCEPT !.pc = "append"]
    /\ ScriptFrame

\* AppendEntry, were the file opened for writing instead of appending.
AppendEntryTruncating(log, commit) == <<Entry(commit)>>

\* Log Appender: the block of the commit is added at the end of the file.
AppendEntry(log, commit) == Append(log, Entry(commit))

\* The entry is appended (the file created when absent), or the write
\* fails; after the last selected commit the script exits with 0.
ScriptAppend ==
    /\ script.pc = "append"
    /\ \/ script' = Fails
       \/ script' =
             [script EXCEPT
                 !.log = AppendEntry(script.log, script.selected[script.pos]),
                 !.exists = TRUE,
                 !.diff = <<>>, !.bounded = <<>>, !.truncated = FALSE,
                 !.pos = IF script.pos < Len(script.selected) THEN @ + 1 ELSE @,
                 !.pc = IF script.pos < Len(script.selected) THEN "extract" ELSE "done",
                 !.exit = IF script.pos < Len(script.selected) THEN "none" ELSE "0"]
    /\ ScriptFrame

ScriptRunning == script.pc \in {"start", "extract", "bound", "summarise", "append"}

\* ScriptTerminate, were the signal not sent: the stop is taken note of
\* and the script goes on.
ScriptNotTerminated ==
    /\ ScriptRunning
    /\ script.stopped = "none"
    /\ script' = [script EXCEPT !.stopped = script.pc]
    /\ ScriptFrame

\* this._currentPythonProcess.kill('SIGTERM') of stopGeneration: the
\* script ends where it is, by the signal.
ScriptTerminate ==
    /\ ScriptRunning
    /\ script.stopped = "none"
    /\ script' = [script EXCEPT !.stopped = script.pc, !.pc = "killed", !.exit = "null"]
    /\ ScriptFrame

\* ------------------------------------------------------- specifications
\* The whole extension.
Next ==
    \/ SidebarFetchSettled
    \/ SidebarUpdateSettled
    \/ OpenConfigPanel
    \/ RevealConfigPanel
    \/ RecvCheckOllamaStatus
    \/ \E k \in CheckIds : CheckFetchSettled(k)
    \/ \E k \in CheckIds : CheckUpdateSettled(k)
    \/ RecvGenerateDocs
    \/ RecvFirstGenerateDocs
    \/ \E r \in RunIds : GenFetchSettled(r)
    \/ \E r \in RunIds : GenUpdateSettled(r)
    \/ \E r \in RunIds : ProcStdout(r)
    \/ \E r \in RunIds : ProcStderr(r)
    \/ \E r \in RunIds : ProcClose(r)
    \/ \E r \in RunIds : ProcError(r)
    \/ StopGeneration
    \/ ViewCheckOllamaStatus
    \/ ViewSubmit
    \/ ViewStopClick
    \/ ViewReceive
    \/ HostCheckOllamaStatus
    \/ HostGenerateDocs
    \/ HostStopGeneration
    \/ CheckStatusCommand
    \/ \E k \in CommandIds : CheckStatusSettled(k)
    \/ DisposePanel
    \/ ReopenConfigPanel
    \/ RefreshTree

Spec == InitArgs /\ [][Next]_vars

\* The three probe routines, interleaved at every await.  Left out are the
\* events of the script process and the stop request, which write none of
\* the variables a probe reads or writes (config, and the probe's locals).
NextProbe ==
    \/ SidebarFetchSettled
    \/ SidebarUpdateSettled
    \/ OpenConfigPanel
    \/ RevealConfigPanel
    \/ RecvCheckOllamaStatus
    \/ \E k \in CheckIds : CheckFetchSettled(k)
    \/ \E k \in CheckIds : CheckUpdateSettled(k)
    \/ RecvGenerateDocs
    \/ \E r \in RunIds : GenFetchSettled(r)
    \/ \E r \in RunIds : GenUpdateSettled(r)

SpecProbe == Init /\ [][NextProbe]_vars

\* The documentation runs of the panel: the generateDocs and stopGeneration
\* messages, _generateDocs and the events of the processes it spawns.  Left
\* out are the sidebar probe and the panel's status checks, which write
\* status, config and the ollamaStatus messages only.
NextRun ==
    \/ OpenConfigPanel
    \/ RecvGenerateDocs
    \/ \E r \in RunIds : GenFetchSettled(r)
    \/ \E r \in RunIds : GenUpdateSettled(r)
    \/ \E r \in RunIds : ProcStdout(r)
    \/ \E r \in RunIds : ProcStderr(r)
    \/ \E r \in RunIds : ProcClose(r)
    \/ \E r \in RunIds : ProcError(r)
    \/ StopGeneration

SpecRun == Init /\ [][NextRun]_vars

\* The arguments of the script: one run of _generateDocs from a message with
\* any config and under any diffLimit setting, up to the spawn.  The
\* arguments of a run are built from its own config and that setting only,
\* so one run shows them all.
NextArgs ==
    \/ OpenConfigPanel
    \/ RecvFirstGenerateDocs
    \/ \E r \in RunIds : GenFetchSettled(r)
    \/ \E r \in RunIds : GenUpdateSettled(r)

SpecArgs == InitArgs /\ [][NextArgs]_vars

\* The panel with its page: the messages of the extension are handled by
\* the page in the order they were posted, the messages of the page by the
\* extension in the order they were sent, and the page's own events (load,
\* submit, clicks) come in between.
NextView ==
    \/ OpenConfigPanel
    \/ ViewCheckOllamaStatus
    \/ ViewSubmit
    \/ ViewStopClick
    \/ ViewReceive
    \/ HostCheckOllamaStatus
    \/ HostGenerateDocs
    \/ HostStopGeneration
    \/ \E k \in CheckIds : CheckFetchSettled(k)
    \/ \E k \in CheckIds : CheckUpdateSettled(k)
    \/ \E r \in RunIds : GenFetchSettled(r)
    \/ \E r \in RunIds : GenUpdateSettled(r)
    \/ \E r \in RunIds : ProcStdout(r)
    \/ \E r \in RunIds : ProcStderr(r)
    \/ \E r \in RunIds : ProcClose(r)
    \/ \E r \in RunIds : ProcError(r)

SpecView == InitView /\ [][NextView]_vars

\* The sidebar status under the status checks: the probe of the
\* constructor, the checkStatus command and the panel's check, under every
\* value of the two ollamaUrl settings.  Left out are the documentation
\* runs, which never set checking_ollama.
InitStatus == InitSettings(Urls \cup {NoUrl}, {Num(DefaultDiffLimit)}) /\ script = NoScript

NextStatus ==
    \/ SidebarFetchSettled
    \/ SidebarUpdateSettled
    \/ CheckStatusCommand
    \/ \E k \in CommandIds : CheckStatusSettled(k)
    \/ OpenConfigPanel
    \/ RecvCheckOllamaStatus
    \/ \E k \in CheckIds : CheckFetchSettled(k)
    \/ \E k \in CheckIds : CheckUpdateSettled(k)

SpecStatus == InitStatus /\ [][NextStatus]_vars

\* Every fetch settles and every awaited configuration write settles.
FairStatus ==
    /\ WF_vars(SidebarFetchSettled)
    /\ WF_vars(SidebarUpdateSettled)
    /\ \A k \in CommandIds : WF_vars(CheckStatusSettled(k))
    /\ \A k \in CheckIds : WF_vars(CheckFetchSettled(k))
    /\ \A k \in CheckIds : WF_vars(CheckUpdateSettled(k))

SpecStatusLive == SpecStatus /\ FairStatus

\* The documentation runs of a panel that is disposed at any moment.
NextDispose ==
    \/ OpenConfigPanel
    \/ RecvGenerateDocs
    \/ \E r \in RunIds : GenFetchSettled(r)
    \/ \E r \in RunIds : GenUpdateSettled(r)
    \/ \E r \in RunIds : ProcStdout(r)
    \/ \E r \in RunIds : ProcStderr(r)
    \/ \E r \in RunIds : ProcClose(r)
    \/ \E r \in RunIds : ProcError(r)
    \/ StopGeneration
    \/ DisposePanel

SpecDispose == Init /\ [][NextDispose]_vars

\* The panels: createOrShow and dispose in any order, with the status
\* checks a reveal starts.
NextPanel ==
    \/ OpenConfigPanel
    \/ ReopenConfigPanel
    \/ RevealConfigPanel
    \/ DisposePanel
    \/ \E k \in CheckIds : CheckFetchSettled(k)
    \/ \E k \in CheckIds : CheckUpdateSettled(k)

SpecPanel == Init /\ [][NextPanel]_vars

\* The sidebar view, rendered at any moment of the documentation runs,
\* which take the status through all its values.
NextTree ==
    \/ OpenConfigPanel
    \/ RecvGenerateDocs
    \/ \E r \in RunIds : GenFetchSettled(r)
    \/ \E r \in RunIds : GenUpdateSettled(r)
    \/ \E r \in RunIds : ProcStdout(r)
    \/ \E r \in RunIds : ProcStderr(r)
    \/ \E r \in RunIds : ProcClose(r)
    \/ \E r \in RunIds : ProcError(r)
    \/ StopGeneration
    \/ RefreshTree

SpecTree == Init /\ [][NextTree]_vars

\* One run of the script, for every commit count and diff limit, history
\* and log file, stopped at any step or not at all.
InitScript ==
    /\ InitHost({Num(DefaultDiffLimit)})
    /\ \E count \in CountValues, limit \in Limits, n \in 0..MaxHistory,
          exists \in BOOLEAN :
          \E log0 \in IF exists THEN {<<>>, <<OldEntry>>} ELSE {<<>>} :
             script = StartScript(count, limit, n, log0, exists)

NextScript ==
    \/ ScriptSelect
    \/ ScriptExtract
    \/ ScriptBound
    \/ ScriptSummarised
    \/ ScriptAppend
    \/ ScriptTerminate

SpecScript == InitScript /\ [][NextScript]_vars

\* ------------------------------------------------------------ properties
AllProbes ==
    {sidebar} \cup {checks[k] : k \in CheckIds} \cup {runs[r].probe : r \in RunIds}

\* The priority order of the candidates: the configured URL when it is a
\* non-empty string, then the two local defaults.
PriorityOrder(userUrl) ==
    (IF userUrl = NoUrl THEN <<>> ELSE <<userUrl>>) \o <<LOCALHOST, LOOPBACK>>

\* C1: in each of the three probe routines the candidates are the priority
\* order, every request made before the current one failed, and the URL
\* selected is the candidate whose request answered OK, all candidates
\* before it having thrown or answered non-OK.
C1_FirstRespondingSelected ==
    \A pr \in AllProbes :
       /\ pr.pc \in {"fetch", "update"} => pr.cands = PriorityOrder(pr.user)
       /\ pr.pc = "fetch" => pr.found = NoUrl /\ pr.fails = pr.idx - 1
       /\ pr.pc = "update" =>
             /\ pr.found = pr.cands[pr.idx]
             /\ pr.answer = "ok"
             /\ pr.fails = pr.idx - 1

\* C1 witness: with three candidates only the third answered, and it is
\* the one selected.
C1_ThirdSelected ==
    \E pr \in AllProbes :
       /\ pr.pc = "update"
       /\ pr.cands = <<CUSTOM, LOCALHOST, LOOPBACK>>
       /\ pr.fails = 2
       /\ pr.found = LOOPBACK

IsChunk(m) == m.cmd \in {"outputUpdate", "errorUpdate"}

Completes(r, ok) ==
    \E i \in 1..Len(posted[r]) : posted[r][i] = Msg("generationComplete", ok)

\* C2: a run whose last candidate fails ends in that step with no process
\* spawned, a single generationComplete(success=false) as its only message
\* and the status ollama_not_ready; and it never spawns or posts afterwards.
C2_NoEndpointAborts ==
    /\ [](\A r \in RunIds : runs[r].end = "noserver" =>
            /\ proc[r].st = "none"
            /\ posted[r] = <<Msg("generationComplete", FALSE)>>
            /\ currentPythonProcess # r)
    /\ [][\A r \in RunIds :
            (/\ runs[r].probe.pc = "fetch"
             /\ runs[r].probe.idx = Len(runs[r].probe.cands)
             /\ runs'[r].probe.pc \notin {"fetch", "update"})
            => /\ runs'[r].end = "noserver"
               /\ status' = "ollama_not_ready"
               /\ proc'[r].st = "none"
               /\ posted'[r] = <<Msg("generationComplete", FALSE)>>]_vars

\* C2 witness: a run has aborted for want of an endpoint.
C2_Aborted == \E r \in RunIds : runs[r].end = "noserver"

\* C3 (as claimed): once a stop request has signalled the process of a
\* run, no further outputUpdate or errorUpdate of that run is posted.
C3_NoChunkAfterStop ==
    [][\A r \in RunIds :
          proc[r].sig /\ posted'[r] # posted[r] =>
             ~IsChunk(posted'[r][Len(posted'[r])])]_vars

\* C4 (as claimed): at most one spawned script process is running.
C4_AtMostOneProcess ==
    Cardinality({r \in RunIds : proc[r].st = "running"}) <= 1

\* C5 (as claimed): a running process that was not stopped is the one the
\* handle designates, and the handle is null unless it designates a child
\* that has not closed.
C5_HandleDesignatesRunning ==
    /\ \A r \in RunIds :
          proc[r].st = "running" /\ ~proc[r].sig => currentPythonProcess = r
    /\ currentPythonProcess # Null =>
          proc[currentPythonProcess].st \in {"running", "failing"}

\* C6: in the messages of each run, every outputUpdate and errorUpdate
\* comes after the run's generationStarted and before any
\* generationComplete of the run.
C6_ProgressInOrder ==
    \A r \in RunIds :
       \A i \in 1..Len(posted[r]) :
          IsChunk(posted[r][i]) =>
             /\ \E j \in 1..(i - 1) : posted[r][j].cmd = "generationStarted"
             /\ \A j \in 1..(i - 1) : posted[r][j].cmd # "generationComplete"

\* C6 witness: a run posted started, a chunk and its completion.
C6_StartedChunkComplete ==
    \E r \in RunIds :
       /\ Len(posted[r]) = 3
       /\ IsChunk(posted[r][2])
       /\ posted[r][3].cmd = "generationComplete"

\* C7: a generationComplete of a run carries success=true exactly when the
\* run's process closed with code 0, and a closed process has its
\* completion posted: true for code 0, false for any other code.
C7_SuccessIffExitZero ==
    \A r \in RunIds :
       /\ \A i \in 1..Len(posted[r]) :
             posted[r][i].cmd = "generationComplete" =>
                (posted[r][i].ok <=> (proc[r].st = "closed" /\ proc[r].code = "0"))
       /\ proc[r].st = "closed" =>
             posted[r][Len(posted[r])] = Msg("generationComplete", proc[r].code = "0")

\* C7 witness: a process ended by a signal (close code null) was reported
\* as a failure.
C7_SignalledReportedFailed ==
    \E r \in RunIds :
       /\ proc[r].st = "closed"
       /\ proc[r].code = "null"
       /\ Completes(r, FALSE)

RunFailed(r) ==
    \/ runs[r].end \in {"noserver", "rejected", "noworkspace", "threw"}
    \/ proc[r].st = "errored"
    \/ proc[r].st = "closed" /\ proc[r].code # "0"

\* C8 (as claimed): every run that failed has shown an error message and
\* posted generationComplete with success=false.
C8_FailureSurfaces ==
    \A r \in RunIds :
       RunFailed(r) =>
          /\ \E kind \in {"noserver", "noworkspace", "unexpected", "spawnerr", "exit"} :
                <<r, kind>> \in shown
          /\ Completes(r, FALSE)

InFlight(pr) == pr.pc \in {"fetch", "update"}

IsPrefix(a, b) == Len(a) <= Len(b) /\ a = SubSeq(b, 1, Len(a))

\* C9 (as claimed): within one probe no URL is requested more than once.
C9_EachUrlOnce ==
    \A pr \in AllProbes :
       InFlight(pr) =>
          \A i, j \in 1..Len(pr.asked) : i # j => pr.asked[i] # pr.asked[j]

\* C9 (amended): the URLs a probe has requested are a prefix of its
\* candidate list, in the list's order, with one request per failed
\* request before it and none after a successful one; the only URL that
\* can be requested twice is a configured URL equal to one of the two
\* defaults, which is in the list twice; and a run's probe, once over, is
\* never started again.
C9_SinglePass ==
    /\ [](\A pr \in AllProbes :
            InFlight(pr) =>
               /\ IsPrefix(pr.asked, PriorityOrder(pr.user))
               /\ Len(pr.asked) = pr.fails + 1
               /\ pr.pc = "update" => pr.found = pr.asked[Len(pr.asked)]
               /\ \A i, j \in 1..Len(pr.asked) :
                     i < j /\ pr.asked[i] = pr.asked[j] =>
                        i = 1 /\ pr.user \in {LOCALHOST, LOOPBACK})
    /\ [][\A r \in RunIds :
            /\ runs[r].probe.pc = "update" => runs'[r].probe.pc # "fetch"
            /\ runs[r].probe.pc \in {"done", "rejected"} =>
                  runs'[r].probe = runs[r].probe]_vars

\* C9 witness: a probe whose configured URL is the first default requested
\* that URL, saw it fail, and requested it again.
C9_DefaultRequestedTwice ==
    \E pr \in AllProbes :
       /\ InFlight(pr)
       /\ pr.user = LOCALHOST
       /\ Len(pr.asked) >= 2
       /\ pr.asked[1] = pr.asked[2]

\* C10 (as claimed): when the configuration write that follows a discovery
\* settles, the persisted ollamaUrl the probes read is the URL selected.
C10_DiscoveryPersisted ==
    [][/\ sidebar.pc = "update" /\ sidebar'.pc # "update"
          => config'[ProbeSection] = sidebar.found
       /\ \A k \in CheckIds :
             checks[k].pc = "update" /\ checks'[k].pc # "update"
                => config'[ProbeSection] = checks[k].found
       /\ \A r \in RunIds :
             runs[r].probe.pc = "update" /\ runs'[r].probe.pc # "update"
                => config'[ProbeSection] = runs[r].probe.found]_vars

\* ------------------------------------------- the arguments of the script
\* The step in which _generateDocs spawns the process of run r.
Spawns(r) == proc[r].st = "none" /\ proc'[r].st # "none"

\* The values that follow flag in args.
FlagValues(args, flag) ==
    {args[i + 1] : i \in {j \in 1..(Len(args) - 1) : args[j] = flag}}

Passed(args, flag) == \E i \in 1..Len(args) : args[i] = flag

\* The numbers that occur in a request or in the setting, and the number a
\* decimal string of the arguments stands for.
NumsUsed ==
    {v[1] : v \in (DiffnoValues \cup DiffLimitValues \cup DiffLimitSettings) \ {None}}

IsDecimal(str) == \E n \in NumsUsed : ToString(n) = str

Decimal(str) == CHOOSE n \in NumsUsed : ToString(n) = str

\* C11 (as claimed): when the request names a model, the model that follows
\* --model is that model if it is in the allow-list and phi3:medium if not.
C11_ModelNormalised ==
    [][\A r \in RunIds :
          Spawns(r) /\ runs[r].cfg.model # "" =>
             FlagValues(proc'[r].args, "--model") =
                {IF runs[r].cfg.model \in AllowedModels
                 THEN runs[r].cfg.model ELSE "phi3:medium"}]_vars

\* The arguments args carry the script path first and then exactly the
\* flags of cfg, where hasDiffno and hasDiffLimit say whether the request
\* counts as supplying a commit count and a diff limit.
FlagsOf(args, cfg, setting, hasDiffno, hasDiffLimit) ==
    /\ args[1] = ScriptPath
    /\ Passed(args, "--diffno") <=> hasDiffno
    /\ hasDiffno => FlagValues(args, "--diffno") = {ToString(cfg.diffno[1])}
    /\ Passed(args, "--model") <=> cfg.model # ""
    /\ cfg.model # "" => FlagValues(args, "--model") = {cfg.model}
    /\ Passed(args, "--watch") <=> cfg.watch
    /\ Passed(args, "--diff-limit") <=> (hasDiffLimit \/ setting # None)
    /\ FlagValues(args, "--diff-limit") \subseteq
          {ToString((IF hasDiffLimit THEN cfg.diffLimit ELSE setting)[1])}
    /\ Len(args) = 1 + (IF hasDiffno THEN 2 ELSE 0)
                     + (IF cfg.model # "" THEN 2 ELSE 0)
                     + (IF hasDiffLimit \/ setting # None THEN 2 ELSE 0)
                     + (IF cfg.watch THEN 1 ELSE 0)

\* C12 (as claimed): the arguments are the script path and the flags of
\* the request, a commit count or diff limit being supplied when the
\* request's field is not null.
C12_FlagsIffSupplied ==
    [][\A r \in RunIds :
          Spawns(r) =>
             FlagsOf(proc'[r].args, runs[r].cfg, config[DiffLimitKey],
                     runs[r].cfg.diffno # None, runs[r].cfg.diffLimit # None)]_vars

\* C12 (amended): the same, a commit count or diff limit being supplied
\* when the request's field is neither null nor 0.
C12_FlagsIffTruthy ==
    [][\A r \in RunIds :
          Spawns(r) =>
             FlagsOf(proc'[r].args, runs[r].cfg, config[DiffLimitKey],
                     Truthy(runs[r].cfg.diffno), Truthy(runs[r].cfg.diffLimit))]_vars

\* C12 witness: a process was spawned with all four flags.
C12_AllFlagsPassed ==
    \E r \in RunIds :
       /\ proc[r].st # "none"
       /\ proc[r].args = <<ScriptPath, "--diffno", "3", "--model", "mistral:7b",
                           "--diff-limit", "1000", "--watch">>

\* the lower bounds of the run configuration
MinDiffLimit == 1000
MinCommitCount == 1

\* C13 (as claimed): the value that follows --diff-limit is an integer of
\* at least 1000.
C13_DiffLimitAtLeastMin ==
    \A r \in RunIds :
       \A str \in FlagValues(proc[r].args, "--diff-limit") :
          IsDecimal(str) /\ Decimal(str) >= MinDiffLimit

\* C14 (as claimed): the value that follows --diffno is an integer of at
\* least 1, and a request with no commit count, or one of 0, has no --diffno.
C14_DiffnoAtLeastOne ==
    /\ [](\A r \in RunIds :
            \A str \in FlagValues(proc[r].args, "--diffno") :
               IsDecimal(str) /\ Decimal(str) >= MinCommitCount)
    /\ [][\A r \in RunIds :
            Spawns(r) /\ ~Truthy(runs[r].cfg.diffno) =>
               ~Passed(proc'[r].args, "--diffno")]_vars

\* ------------------------------------------------------- the stop request
\* A script process is in flight: spawned, and neither 'close' nor 'error'
\* has been handled for it.
ProcInFlight(r) == proc[r].st \in {"running", "failing"}

\* The step is a stop request taking its `if` branch: it is the only
\* handler that signals, and the only one that clears the handle while no
\* process changes state and no _generateDocs call moves.
StopActs ==
    \/ \E r \in RunIds : proc'[r].sig # proc[r].sig
    \/ /\ currentPythonProcess # Null
       /\ currentPythonProcess' = Null
       /\ \A r \in RunIds : proc'[r].st = proc[r].st
       /\ runs' = runs

\* C16: with no script process in flight the handle is null, so a stop
\* request takes no branch and changes nothing; a stop request that acts
\* changes the handle and the signalled flag of the process the handle
\* designated and nothing else (no status, no message, no other process);
\* and a process is spawned unsignalled, whatever stops were handled before.
C16_StopOnlyCurrent ==
    /\ []((\A r \in RunIds : ~ProcInFlight(r)) => currentPythonProcess = Null)
    /\ [][StopActs =>
            /\ currentPythonProcess # Null
            /\ currentPythonProcess' = Null
            /\ \A r \in RunIds :
                  /\ r # currentPythonProcess => proc'[r] = proc[r]
                  /\ proc'[r].sig # proc[r].sig => proc[r].st = "running"
                  /\ [proc'[r] EXCEPT !.sig = FALSE] = [proc[r] EXCEPT !.sig = FALSE]
            /\ UNCHANGED <<status, posted, runs, shown, config>>]_vars
    /\ [][\A r \in RunIds : Spawns(r) => ~proc'[r].sig]_vars

\* C16 witness: the process of the first run was signalled by a stop and
\* has closed, and the process of a later request runs unsignalled with
\* the handle on it.
C16_LaterRunUntouched ==
    /\ proc[1].sig
    /\ proc[1].st = "closed"
    /\ proc[2].st = "running"
    /\ ~proc[2].sig
    /\ currentPythonProcess = 2

\* ----------------------------------------------------------- streaming
\* The chunks of run r as outputArea shows them: in the order of their
\* messages, those of stderr behind the error marker.
ChunkText(r) ==
    LET cs == SelectSeq(posted[r], IsChunk)
    IN  [i \in 1..Len(cs) |->
            [kind |-> IF cs[i].cmd = "outputUpdate" THEN "out" ELSE "err",
             run |-> r, n |-> cs[i].n]]

\* The page handles the generationComplete of run r in this step.
ViewCompletes(r) ==
    /\ posted[Queue] # <<>>
    /\ posted'[Queue] = Tail(posted[Queue])
    /\ Head(posted[Queue]).run = r
    /\ Head(posted[Queue]).msg.cmd = "generationComplete"

\* The chunks outputArea shows, the closing lines left out.
ChunksShown == SelectSeq(webview.out, LAMBDA t : t.kind \in {"out", "err"})

\* C15 (as claimed): the messages of a run carry its chunks one by one in
\* the order of the data events, and when the page handles a
\* generationComplete of the run, the chunks outputArea shows are the
\* chunks of that run, all of them and no other, in that order.
C15_OutputIsChunksOfRun ==
    /\ [](\A r \in RunIds :
            LET cs == SelectSeq(posted[r], IsChunk)
            IN  /\ Len(cs) = proc[r].chunks
                /\ \A i \in 1..Len(cs) : cs[i].n = i)
    /\ [][\A r \in RunIds : ViewCompletes(r) => ChunksShown = ChunkText(r)]_vars
\* ---------------------------------------------------------------- C17
\* The entries the script has written for the first n selected commits.
Written(n) == [i \in 1..n |-> Entry(script.selected[i])]

C18_LogAppendOnly ==
    /\ [][IsPrefix(script.log, script'.log)]_vars
    /\ [](script.pc = "done" =>
              script.log = script.log0 \o Written(Len(script.selected)))

\* C18 witness: a run has appended three entries to a log that had content.
C18_ThreeEntriesAppended ==
    /\ script.pc = "done"
    /\ script.log0 = <<OldEntry>>
    /\ script.log = <<OldEntry, Entry(1), Entry(2), Entry(3)>>

\* ---------------------------------------------------------------- C19
\* The number of commits asked for: the count supplied, or 1 when the log
\* file was there at the start and 5 when it was not.
Wanted ==
    IF script.count # None THEN script.count[1]
    ELSE IF script.existed THEN 1 ELSE 5

\* C19: once the selector has returned, the selection is the
\* min(k, length of the history) most recent commits, most recent first.
C19_SelectsMostRecent ==
    script.pos >= 1 =>
        /\ Len(script.selected) = Min(Wanted, Len(script.history))
        /\ \A i \in 1..Len(script.selected) : script.selected[i] = i

\* C19 witness: a count of 3 and no log file, the three most recent commits
\* are selected.
C19_ThreeWithoutLog ==
    /\ script.pc = "extract"
    /\ script.pos = 1
    /\ script.count = Num(3)
    /\ ~script.existed
    /\ script.selected = <<1, 2, 3>>

\* ---------------------------------------------------------------- C20
\* C20: the bounded diff is at most the limit plus the marker long; a diff
\* within the limit is left unchanged and is not marked truncated, and
\* bounding it again with the same limit leaves it unchanged again.
C20_BoundedLength ==
    script.pc = "summarise" =>
        /\ Len(script.bounded) <= script.limit + Len(Marker)
        /\ Len(script.diff) <= script.limit =>
              /\ script.bounded = script.diff
              /\ ~script.truncated
              /\ Bounding(script.bounded, script.limit).text = script.bounded

\* C20 witness: a diff longer than the limit was cut to the limit and
\* marked.
C20_LongDiffTruncated ==
    /\ script.pc = "summarise"
    /\ Len(script.diff) > script.limit
    /\ script.limit >= 1
    /\ script.truncated
    /\ script.bounded = SubSeq(script.diff, 1, script.limit) \o Marker

\* ---------------------------------------------------------------- C21
\* The generationComplete messages posted for run r.
Completions(r) == Len(SelectSeq(posted[r], LAMBDA m : m.cmd = "generationComplete"))

\* The call of _generateDocs has returned or thrown and, when it spawned a
\* process, the process has closed: nothing more happens for run r.
RunOver(r) ==
    \/ runs[r].end \in {"noserver", "noworkspace", "threw", "rejected"}
    \/ runs[r].end = "spawned" /\ proc[r].st = "closed"

\* C21: no run has two generationComplete messages, and a run that is over
\* has one.
C21_OneCompletionPerRun ==
    \A r \in RunIds :
       /\ Completions(r) <= 1
       /\ RunOver(r) => Completions(r) = 1

\* ---------------------------------------------------------------- C22
\* The step in which run r spawns its process.
SpawnStep(r) == proc[r].st = "none" /\ proc'[r].st \in {"running", "failing"}

RunInProgress(r) == InFlight(runs[r].probe) \/ ProcInFlight(r)

\* C23: while a script process is in flight the status is generating, and
\* the status is generating only while a run is in progress.
C23_GeneratingIffRunning ==
    /\ (\E r \in RunIds : ProcInFlight(r)) => status = "generating"
    /\ status = "generating" => \E r \in RunIds : RunInProgress(r)

\* ---------------------------------------------------------------- C24
\* C24: a run whose process was sent SIGTERM by stopGeneration has no
\* generationComplete with success=true, and the step that closes its
\* process does not set generation_complete.
C24_CancelledNeverSuccess ==
    /\ [](\A r \in RunIds : proc[r].sig => ~Completes(r, TRUE))
    /\ [][\A r \in RunIds :
            (proc[r].sig /\ proc[r].st # "closed" /\ proc'[r].st = "closed")
            => status' # "generation_complete"]_vars

\* ---------------------------------------------------------------- C25
\* C25: the status, when it is checking_ollama, eventually is not; the
\* sidebar probe leaves ollama_ready when a candidate answered OK and
\* ollama_not_ready when the last candidate failed, and the checkStatus
\* command ollama_ready when its request answered OK and ollama_not_ready
\* otherwise, a request that throws included.
C25_CheckingEnds ==
    /\ (status = "checking_ollama") ~> (status # "checking_ollama")
    /\ [][/\ (sidebar.pc = "fetch" /\ sidebar'.pc = "update") =>
               status' = "ollama_ready"
          /\ (sidebar.pc = "fetch" /\ sidebar'.pc = "done") =>
               status' = "ollama_not_ready"
          /\ \A k \in CommandIds :
               (commands[k].pc = "fetch" /\ commands'[k].pc = "done") =>
                  status' = IF commands'[k].answer = "ok" THEN "ollama_ready"
                                                             ELSE "ollama_not_ready"]_vars

\* C25 witness: the request of a checkStatus command threw and the status
\* is ollama_not_ready.
C25_ThrownIsNotReady ==
    \E k \in CommandIds :
       /\ commands[k].pc = "done"
       /\ commands[k].answer = "throw"
       /\ status = "ollama_not_ready"

\* ---------------------------------------------------------------- C26
\* The candidate-list probe run to its end from the setting userUrl, the
\* request of each URL answered as net says.
RECURSIVE RunProbe(_, _)
RunProbe(pr, net) ==
    IF pr.pc # "fetch" THEN pr
    ELSE RunProbe(ProbeStep(pr, net[pr.cands[pr.idx]]), net)

ProbeFinds(userUrl, net) == RunProbe(StartProbe(userUrl), net).pc = "found"

\* C26: whatever each URL answers, a checkStatus command that is awaiting
\* its request will set ollama_ready exactly when the candidate-list probe,
\* run now, would find an endpoint.
C26_CommandAgreesWithProbe ==
    \A k \in CommandIds :
       commands[k].pc = "fetch" =>
          \A net \in [Urls -> Answers] :
             (CommandStatus(net[commands[k].url]) = "ollama_ready")
                <=> ProbeFinds(config[ProbeSection], net)

\* ---------------------------------------------------------------- C27
\* The step in which probe pr ends having found no endpoint: its last
\* candidate failed.
EndsNotFound(pr, after) ==
    /\ pr.pc = "fetch"
    /\ pr.idx = Len(pr.cands)
    /\ after.pc \notin {"fetch", "update"}

\* The step in which probe pr comes back from its configuration write.
WriteSettles(pr, after) == pr.pc = "update" /\ after.pc # "update"

\* C27: the step in which a probe of any of the three routines ends
\* without an endpoint leaves the settings unchanged, and the settings
\* change only in the step in which the write of a probe settles, whose
\* selected candidate answered OK, and then to that candidate.
C27_WrittenOnlyWhenFound ==
    [][/\ (\/ EndsNotFound(sidebar, sidebar')
           \/ \E k \in CheckIds : EndsNotFound(checks[k], checks'[k])
           \/ \E r \in RunIds : EndsNotFound(runs[r].probe, runs'[r].probe))
          => config' = config
       /\ config' # config =>
             \E pr \in AllProbes :
                /\ pr.pc = "update"
                /\ pr.answer = "ok"
                /\ config' = [config EXCEPT ![ProbeSection] = pr.found]
                /\ \/ pr = sidebar /\ WriteSettles(sidebar, sidebar')
                   \/ \E k \in CheckIds : pr = checks[k] /\ WriteSettles(checks[k], checks'[k])
                   \/ \E r \in RunIds :
                         pr = runs[r].probe /\ WriteSettles(runs[r].probe, runs'[r].probe)]_vars

\* C27 witness: a probe with a configured URL has ended without an endpoint
\* and the setting still holds that URL.
C27_NotFoundKeepsSetting ==
    /\ sidebar = Returned("done")
    /\ status = "ollama_not_ready"
    /\ config[ProbeSection] = CUSTOM

\* ---------------------------------------------------------------- C28
\* C28: whenever the Stop button is shown, a click on it sends exactly one
\* stopGeneration message: one click listener is registered on it.
C28_StopSendsOne ==
    (webview.loaded /\ webview.stopShown) => webview.listeners = 1

\* ---------------------------------------------------------------- C29
\* The generationComplete messages of run r the page has not handled yet.
Unhandled(r) ==
    Len(SelectSeq(posted[Queue],
                  LAMBDA e : e.run = r /\ e.msg.cmd = "generationComplete"))

\* The r-th submission of the form has been made and no generationComplete
\* of its run has been handled by the page.
AwaitingCompletion(r) ==
    /\ Cardinality({q \in RunIds : runs[q].probe.pc # "none"}) + Queued("generateDocs") >= r
    /\ Completions(r) = Unhandled(r)

\* C29: the Generate button is disabled from the submission of a run until
\* a generationComplete of that run is handled by the page.
C29_DisabledWhileRunning ==
    \A r \in RunIds : AwaitingCompletion(r) => webview.disabled

\* ---------------------------------------------------------------- C30
\* C30: once the panel is disposed nothing more is posted to its webview,
\* and every process still running has been sent SIGTERM or is the one the
\* handle designates with a panel left to receive the stop request.
C30_DisposeEndsRuns ==
    /\ [][disposed => posted' = posted]_vars
    /\ [](disposed =>
             \A r \in RunIds :
                ProcInFlight(r) => proc[r].sig \/ (panelOpen /\ currentPythonProcess = r))

\* ---------------------------------------------------------------- C31
\* C31: at most one panel is live; currentPanel is undefined when none is
\* and is the live panel otherwise; a panel is created only in a step that
\* starts with currentPanel undefined, and a createOrShow with a panel
\* creates none and starts a status check.
C31_SinglePanel ==
    /\ [](/\ Cardinality(panels.live) <= 1
          /\ panels.live = IF panels.current = 0 THEN {} ELSE {panels.current}
          /\ panelOpen <=> panels.current # 0)
    /\ [][/\ panels'.made > panels.made => panels.current = 0 /\ ~panelOpen
          /\ (panelOpen /\ checks' # checks /\ \E k \in CheckIds : checks[k].pc = "none"
                                                               /\ checks'[k].pc = "fetch")
               => panels' = panels]_vars

\* C31 witness: after the first panel was disposed a second was created,
\* and it is the only live one and currentPanel.
C31_SecondPanelAlone ==
    /\ panels.made = 2
    /\ panels.live = {2}
    /\ panels.current = 2
    /\ panelOpen

\* ---------------------------------------------------------------- C32
\* C32: the view rendered under any status has exactly two items, the
\* second being Refresh Ollama Status with the checkStatus command; the
\* first has no command when rendered under checking_ollama or generating;
\* and getChildren of each item is empty.
C32_TwoItems ==
    tree # NoTree =>
       /\ Len(tree.items) = 2
       /\ tree.items[2].label = "Refresh Ollama Status"
       /\ tree.items[2].command = "centrim-docgen.checkStatus"
       /\ tree.status \in {"checking_ollama", "generating"} => tree.items[1].command = ""
       /\ \A i \in 1..Len(tree.items) : GetChildren(tree.status, <<tree.items[i]>>) = <<>>

\* C32 witness: the view was rendered during a generation, its first item
\* has no command.
C32_RenderedWhileGenerating ==
    /\ tree.status = "generating"
    /\ Len(tree.items) = 2
    /\ tree.items[1] = Item("Generating Documentation...", "")

====
